---- MODULE Spec2Model ----
(***************************************************************************)
(* Model of glutin's OSMesa adapter (src/glutin/src/api/osmesa.rs) and of  *)
(* the Wayland window surface (src/glutin/src/platform_impl/unix/          *)
(* wayland.rs).                                                            *)
(*                                                                         *)
(* The adapters keep no state of their own beyond the native handle: the   *)
(* "current context" lives in the OSMesa library.  The library is modelled *)
(* as the environment: a set of allocated context handles and one current- *)
(* context pointer for the calling thread.  A Rust panic is an outcome of  *)
(* the operation ("panic(...)"); the state keeps whatever the handler had  *)
(* done before it unwound.                                                 *)
(*                                                                         *)
(* Machine integers are scaled: u32 and c_int/i32 are WordBits wide, usize *)
(* is WordBits or 2*WordBits wide (32- and 64-bit targets).  Attribute     *)
(* keys and GL version numbers (u8 in the source) are small and unscaled.  *)
(***************************************************************************)
EXTENDS Integers, Sequences, FiniteSets, TLC

\* ---------------------------------------------------------------- bounds
WordBits   == 3    \* scaled width of u32 and of c_int / i32
MaxHandles == 2    \* distinct addresses the native allocator hands out
MaxVersion == 1    \* largest major / minor number requested

\* ------------------------------------------------------ program constants
OSMESA_PROFILE               == 51     \* 0x33
OSMESA_CORE_PROFILE          == 52     \* 0x34
OSMESA_COMPAT_PROFILE        == 53     \* 0x35
OSMESA_CONTEXT_MAJOR_VERSION == 54     \* 0x36
OSMESA_CONTEXT_MINOR_VERSION == 55     \* 0x37
GL_UNSIGNED_BYTE             == 5121   \* 0x1401
NULL                         == 0      \* std::ptr::null_mut()

\* ------------------------------------------------------ machine integers
RECURSIVE Pow2(_)
Pow2(n) == IF n = 0 THEN 1 ELSE 2 * Pow2(n - 1)

U32 == 0 .. (Pow2(WordBits) - 1)

\* `x as i32` / `x as raw::c_int` for a u32 x: two's complement reinterpretation
AsCInt(x) == IF x >= Pow2(WordBits - 1) THEN x - Pow2(WordBits) ELSE x

\* a usize value that was computed without a panic
Usize(x) == [ok |-> TRUE, val |-> x]

\* `x as usize` for a u32 x: zero extension (usize is at least as wide as u32)
AsUsize(x, bits) == Usize(x % Pow2(bits))

\* usize multiplication a * b: [ok, val].  In a build with overflow checks an
\* overflowing product panics (ok = FALSE); without them it wraps.  A panic
\* in an operand propagates.
MulUsize(a, b, bits, checks) ==
    IF ~a.ok \/ ~b.ok THEN [ok |-> FALSE, val |-> 0]
    ELSE IF a.val * b.val >= Pow2(bits)
         THEN IF checks THEN [ok |-> FALSE, val |-> 0]
              ELSE [ok |-> TRUE, val |-> (a.val * b.val) % Pow2(bits)]
         ELSE [ok |-> TRUE, val |-> a.val * b.val]

\* ------------------------------------------------------------ value sets
Addrs == 1 .. MaxHandles
Versions == 0 .. MaxVersion

Profiles == {"None", "Compatibility", "Core"}
Robustnesses == {"NotRobust", "TryRobustNoResetNotification",
                 "RobustNoResetNotification", "RobustLoseContextOnReset"}
Apis == {"OpenGl", "OpenGlEs", "WebGl"}

\* the version requests; the numbers of an ES or WebGL request, which new()
\* matches with `_`, vary in the major number only
GlRequests ==
    {[kind |-> "Latest", api |-> "OpenGl", major |-> 0, minor |-> 0]}
    \cup [kind : {"Specific"}, api : {"OpenGl"}, major : Versions, minor : Versions]
    \cup [kind : {"Specific"}, api : Apis \ {"OpenGl"}, major : Versions, minor : {0}]
    \cup [kind : {"GlThenGles"}, api : {"OpenGl"}, major : Versions, minor : Versions]

NoRequest == [profile |-> "None", robustness |-> "NotRobust", sharing |-> NULL,
              version |-> [kind |-> "Latest", api |-> "OpenGl", major |-> 0, minor |-> 0]]

\* one native call, as the handler issued it
Call(fn, ctx, width, height) == [fn |-> fn, ctx |-> ctx, width |-> width, height |-> height]

VARIABLES
    contexts,        \* the OsMesaContext values the program holds, each named by
                     \* its field `context` (new() returns a fresh handle each time)
    everBound,       \* the held values make_current_osmesa_buffer was called on
    nativeLive,      \* OSMesa: handles created and not destroyed
    nativeCurrent,   \* OSMesa: OSMesaGetCurrentContext() of the thread
    libAvailable,    \* OsMesa::try_loading() succeeds on this machine
    driverClears,    \* the driver implements OSMesaMakeCurrent(NULL, ...)
    usizeBits,       \* width of usize of the build
    overflowChecks,  \* the build panics on arithmetic overflow
    last,            \* the last OsMesaContext operation, its result and native calls
    buffer,          \* result of the last OsMesaBuffer::new
    wsurface,        \* WindowSurface.wsurface: the wl_egl_window's tracked geometry
    surface,         \* WindowSurface.surface: the EGL surface handle
    lastSurfaceOp    \* the last WindowSurface operation and its input

vars == <<contexts, everBound, nativeLive, nativeCurrent, libAvailable, driverClears,
          usizeBits, overflowChecks, last, buffer, wsurface, surface, lastSurfaceOp>>

ctxVars  == <<contexts, everBound, nativeLive, nativeCurrent, last>>
envVars  == <<libAvailable, driverClears, usizeBits, overflowChecks>>
bufVars  == <<buffer>>
surfVars == <<wsurface, surface, lastSurfaceOp>>

\* ------------------------------------------------- the OSMesa library
\* OSMesaMakeCurrent(ctx, buffer, type, width, height) on a thread whose
\* current context is cur: [ret, current].  A NULL ctx asks to clear the
\* binding, which only some drivers implement; otherwise the call binds ctx
\* when its parameters are valid and reports GL_FALSE (0) when they are not.
OSMesaMakeCurrent(ctx, type, width, height, cur, live, clears) ==
    IF ctx = NULL
    THEN IF clears THEN [ret |-> 1, current |-> NULL]
                   ELSE [ret |-> 0, current |-> cur]
    ELSE IF ctx \in live /\ type = GL_UNSIGNED_BYTE /\ width >= 1 /\ height >= 1
         THEN [ret |-> 1, current |-> ctx]
         ELSE [ret |-> 0, current |-> cur]

\* OSMesaDestroyContext(ctx): frees the handle; Mesa unbinds a context that is
\* current while it is destroyed.
OSMesaDestroyContext(ctx, cur, live) ==
    [live |-> live \ {ctx}, current |-> IF cur = ctx THEN NULL ELSE cur]

\* OSMesaGetCurrentContext()
OSMesaGetCurrentContext == nativeCurrent

\* ------------------------------------------------- OsMesaContext::new
RejectedRobustness == {"RobustNoResetNotification", "RobustLoseContextOnReset"}

\* new() without the test of the requested API
NewEarly_NoApiCheck(req, lib) ==
    IF ~lib THEN "Err(NoBackendAvailable(LoadingError))"
    ELSE IF req.sharing # NULL THEN "panic(Context sharing not possible with OsMesa)"
    ELSE IF req.robustness \in RejectedRobustness THEN "Err(RobustnessNotSupported)"
    ELSE "proceed"

\* new() without the test of the robustness mode
NewEarly_NoRobustnessCheck(req, lib) ==
    IF ~lib THEN "Err(NoBackendAvailable(LoadingError))"
    ELSE IF req.sharing # NULL THEN "panic(Context sharing not possible with OsMesa)"
    ELSE IF req.version.kind = "Specific" /\ req.version.api \in {"OpenGlEs", "WebGl"}
         THEN "Err(NoBackendAvailable(NoEsOrWebGlSupported))"
    ELSE "proceed"

\* The checks of new() that precede the attribute list, in program order:
\* the result they return (or the panic), "proceed" when all of them pass.
NewEarly(req, lib) ==
    IF ~lib THEN "Err(NoBackendAvailable(LoadingError))"
    ELSE IF req.sharing # NULL THEN "panic(Context sharing not possible with OsMesa)"
    ELSE IF req.robustness \in RejectedRobustness THEN "Err(RobustnessNotSupported)"
    ELSE IF req.version.kind = "Specific" /\ req.version.api \in {"OpenGlEs", "WebGl"}
         THEN "Err(NoBackendAvailable(NoEsOrWebGlSupported))"
    ELSE "proceed"

\* an attribute list that pushes the minor number under the major key's value
NewAttribs_SwapsVersion(profile, version) ==
    LET p == IF profile = "None" THEN <<>>
             ELSE <<OSMESA_PROFILE,
                    IF profile = "Compatibility" THEN OSMESA_COMPAT_PROFILE
                                                 ELSE OSMESA_CORE_PROFILE>>
        v == IF version.kind = "Latest" THEN <<>>
             ELSE <<OSMESA_CONTEXT_MAJOR_VERSION, version.minor,
                    OSMESA_CONTEXT_MINOR_VERSION, version.major>>
    IN  p \o v \o <<0>>

\* The attribute list new() hands to OSMesaCreateContextAttribs.  major and
\* minor are u8 in the source; `as raw::c_int` widens them unchanged.
NewAttribs(profile, version) ==
    LET p == IF profile = "None" THEN <<>>
             ELSE <<OSMESA_PROFILE,
                    IF profile = "Compatibility" THEN OSMESA_COMPAT_PROFILE
                                                 ELSE OSMESA_CORE_PROFILE>>
        v == IF version.kind = "Latest" THEN <<>>
             ELSE <<OSMESA_CONTEXT_MAJOR_VERSION, version.major,
                    OSMESA_CONTEXT_MINOR_VERSION, version.minor>>
    IN  p \o v \o <<0>>

\* new(cb, version) when the native create call, if reached, returns h.
NewOutcome(req, lib, h) ==
    LET early == NewEarly(req, lib) IN
    IF early # "proceed"
    THEN [result |-> early, context |-> NULL, attribs |-> <<>>,
          calls |-> <<Call("OsMesa::try_loading", NULL, 0, 0)>>]
    ELSE [result |-> IF h = NULL THEN "Err(OsError)" ELSE "Ok",
          context |-> h,
          attribs |-> NewAttribs(req.profile, req.version),
          calls |-> <<Call("OsMesa::try_loading", NULL, 0, 0),
                      Call("OSMesaCreateContextAttribs", h, 0, 0)>>]

\* ------------------------------------------------- OsMesaBuffer::new
OsMesaBufferNew(w, h, bits, checks) ==
    LET n == MulUsize(MulUsize(AsUsize(w, bits), AsUsize(h, bits), bits, checks),
                      Usize(4), bits, checks)
    IN  IF n.ok
        THEN [op |-> "new", w |-> w, h |-> h, result |-> "Ok",
              width |-> w, height |-> h, len |-> n.val]
        ELSE [op |-> "new", w |-> w, h |-> h,
              result |-> "panic(attempt to multiply with overflow)",
              width |-> 0, height |-> 0, len |-> 0]

NoBuffer == [op |-> "none", w |-> 0, h |-> 0, result |-> "none",
             width |-> 0, height |-> 0, len |-> 0]

\* ------------------------------------------------- bind / unbind / drop
\* make_current_osmesa_buffer that does not look at the native return value
MakeCurrentOutcome_IgnoresRet(ctx, buf, cur, live, clears) ==
    LET r == OSMesaMakeCurrent(ctx, GL_UNSIGNED_BYTE, AsCInt(buf.width),
                               AsCInt(buf.height), cur, live, clears)
    IN  [result |-> "Ok", current |-> r.current,
         calls |-> <<Call("OSMesaMakeCurrent", ctx, AsCInt(buf.width), AsCInt(buf.height))>>]

\* make_current_osmesa_buffer(&self, buffer)
MakeCurrentOutcome(ctx, buf, cur, live, clears) ==
    LET r == OSMesaMakeCurrent(ctx, GL_UNSIGNED_BYTE, AsCInt(buf.width),
                               AsCInt(buf.height), cur, live, clears)
    IN  [result |-> IF r.ret = 0 THEN "panic(OSMesaMakeCurrent failed)" ELSE "Ok",
         current |-> r.current,
         calls |-> <<Call("OSMesaMakeCurrent", ctx, AsCInt(buf.width), AsCInt(buf.height))>>]

\* make_not_current that never issues the native clear
MakeNotCurrentOutcome_NeverClears(ctx, cur, live, clears) ==
    [result |-> "Ok", current |-> cur,
     calls |-> <<Call("OSMesaGetCurrentContext", NULL, 0, 0)>>]

\* make_not_current that clears whichever context is current
MakeNotCurrentOutcome_AlwaysClears(ctx, cur, live, clears) ==
    LET r == OSMesaMakeCurrent(NULL, 0, 0, 0, cur, live, clears)
    IN  [result |-> IF r.ret = 0 THEN "panic(not implemented)" ELSE "Ok",
         current |-> r.current,
         calls |-> <<Call("OSMesaGetCurrentContext", NULL, 0, 0),
                     Call("OSMesaMakeCurrent", NULL, 0, 0)>>]

\* make_not_current that swallows a failed native clear
MakeNotCurrentOutcome_OkOnFailure(ctx, cur, live, clears) ==
    IF cur = ctx
    THEN LET r == OSMesaMakeCurrent(NULL, 0, 0, 0, cur, live, clears)
         IN  [result |-> "Ok", current |-> r.current,
              calls |-> <<Call("OSMesaGetCurrentContext", NULL, 0, 0),
                          Call("OSMesaMakeCurrent", NULL, 0, 0)>>]
    ELSE [result |-> "Ok", current |-> cur,
          calls |-> <<Call("OSMesaGetCurrentContext", NULL, 0, 0)>>]

\* make_not_current(&self)
MakeNotCurrentOutcome(ctx, cur, live, clears) ==
    IF cur = ctx
    THEN LET r == OSMesaMakeCurrent(NULL, 0, 0, 0, cur, live, clears)
         IN  [result |-> IF r.ret = 0 THEN "panic(not implemented)" ELSE "Ok",
              current |-> r.current,
              calls |-> <<Call("OSMesaGetCurrentContext", NULL, 0, 0),
                          Call("OSMesaMakeCurrent", NULL, 0, 0)>>]
    ELSE [result |-> "Ok", current |-> cur,
          calls |-> <<Call("OSMesaGetCurrentContext", NULL, 0, 0)>>]

\* is_current(&self)
IsCurrentOf(ctx, cur) == cur = ctx

\* a drop that forgets the native handle
DropOutcome_Leaks(ctx, cur, live) ==
    [live |-> live, current |-> cur, calls |-> <<>>]

\* <OsMesaContext as Drop>::drop(&mut self)
DropOutcome(ctx, cur, live) ==
    LET d == OSMesaDestroyContext(ctx, cur, live)
    IN  [live |-> d.live, current |-> d.current,
         calls |-> <<Call("OSMesaDestroyContext", ctx, 0, 0)>>]

\* ------------------------------------------------- WindowSurface (Wayland)
\* the geometry a wl_egl_window tracks
WlEglSurface(width, height, dx, dy) ==
    [width |-> width, height |-> height, dx |-> dx, dy |-> dy]

NoWlEglSurface == WlEglSurface(0, 0, 0, 0)

\* WindowSurface::new up to the toolkit-level surface:
\* wegl::WlEglSurface::new_from_raw(surface, width as i32, height as i32)
WindowSurfaceNewWl(w, h) == WlEglSurface(AsCInt(w), AsCInt(h), 0, 0)

\* update_after_resize(&self, size): self.wsurface.resize(width as i32,
\* height as i32, 0, 0)
UpdateAfterResizeWl(w, h) == WlEglSurface(AsCInt(w), AsCInt(h), 0, 0)

\* ------------------------------------------------- initial state
NoOp == [op |-> "none", self |-> NULL, req |-> NoRequest, result |-> "none",
         calls |-> <<>>, attribs |-> <<>>]

Init ==
    /\ contexts = {}
    /\ everBound = {}
    /\ nativeLive = {}
    /\ nativeCurrent = NULL
    /\ libAvailable \in BOOLEAN
    /\ driverClears \in BOOLEAN
    /\ usizeBits \in {WordBits, 2 * WordBits}
    /\ overflowChecks \in BOOLEAN
    /\ last = NoOp
    /\ buffer = NoBuffer
    /\ wsurface = NoWlEglSurface
    /\ surface = NULL
    /\ lastSurfaceOp = [op |-> "none", w |-> 0, h |-> 0, result |-> "none"]

\* ------------------------------------------------- OsMesaContext actions
\* cb.sharing is None or a reference to a context the caller holds
Sharers == IF contexts # {} THEN {NULL, CHOOSE c \in contexts : TRUE} ELSE {NULL}

\* every request: the inputs of the specification of new()
AllRequests ==
    [profile : Profiles, robustness : Robustnesses, sharing : Sharers,
     version : GlRequests]

\* the requests of the lifecycle specification: one per path through new()
LifecycleRequests ==
    [profile : {"None"}, robustness : {"NotRobust", "RobustLoseContextOnReset"},
     sharing : Sharers,
     version : {[kind |-> "Latest", api |-> "OpenGl", major |-> 0, minor |-> 0],
                [kind |-> "Specific", api |-> "OpenGlEs", major |-> 0, minor |-> 0]}]

\* the handles the native create call can return: a fresh address, or NULL
NativeCreateResults == (Addrs \ nativeLive) \cup {NULL}

NewWith(reqs) ==
    \E req \in reqs :
      \E h \in IF NewEarly(req, libAvailable) = "proceed"
               THEN NativeCreateResults ELSE {NULL} :
        LET out == NewOutcome(req, libAvailable, h)
            made == [op |-> "new", self |-> NULL, req |-> req, result |-> out.result,
                     calls |-> out.calls, attribs |-> out.attribs]
        IN  /\ IF out.result = "Ok"
               THEN /\ contexts' = contexts \cup {out.context}
                    /\ everBound' = everBound \ {out.context}
                    /\ nativeLive' = nativeLive \cup {out.context}
                    /\ last' = [made EXCEPT !.self = out.context]
               ELSE /\ last' = made
                    /\ UNCHANGED <<contexts, everBound, nativeLive>>
            /\ UNCHANGED <<nativeCurrent, envVars, bufVars, surfVars>>

New == NewWith(LifecycleRequests)

\* the dimensions bind and window creation are tried with: zero, one, the
\* first value whose c_int cast is negative, and the largest u32
EdgeSizes == {0, 1, Pow2(WordBits - 1), Pow2(WordBits) - 1}

MakeCurrentOsmesaBuffer ==
    \E c \in contexts, w \in EdgeSizes, h \in EdgeSizes :
        LET buf == OsMesaBufferNew(w, h, usizeBits, overflowChecks)
            out == MakeCurrentOutcome(c, buf, nativeCurrent, nativeLive, driverClears)
        IN  /\ buf.result = "Ok"
            /\ nativeCurrent' = out.current
            /\ everBound' = everBound \cup {c}
            /\ last' = [op |-> "make_current_osmesa_buffer", self |-> c,
                        req |-> NoRequest, result |-> out.result,
                        calls |-> out.calls, attribs |-> <<>>]
            /\ UNCHANGED <<contexts, nativeLive, envVars, bufVars, surfVars>>

MakeNotCurrent ==
    \E c \in contexts :
        LET out == MakeNotCurrentOutcome(c, nativeCurrent, nativeLive, driverClears)
        IN  /\ nativeCurrent' = out.current
            /\ last' = [op |-> "make_not_current", self |-> c, req |-> NoRequest,
                        result |-> out.result, calls |-> out.calls, attribs |-> <<>>]
            /\ UNCHANGED <<contexts, everBound, nativeLive, envVars, bufVars, surfVars>>

IsCurrent ==
    \E c \in contexts :
        /\ last' = [op |-> "is_current", self |-> c, req |-> NoRequest,
                    result |-> IF IsCurrentOf(c, OSMesaGetCurrentContext)
                               THEN "true" ELSE "false",
                    calls |-> <<Call("OSMesaGetCurrentContext", NULL, 0, 0)>>,
                    attribs |-> <<>>]
        /\ UNCHANGED <<contexts, everBound, nativeLive, nativeCurrent, envVars,
                       bufVars, surfVars>>

Drop ==
    \E c \in contexts :
        LET out == DropOutcome(c, nativeCurrent, nativeLive)
        IN  /\ nativeLive' = out.live
            /\ nativeCurrent' = out.current
            /\ contexts' = contexts \ {c}
            /\ everBound' = everBound \ {c}
            /\ last' = [op |-> "drop", self |-> c, req |-> NoRequest, result |-> "Ok",
                        calls |-> out.calls, attribs |-> <<>>]
            /\ UNCHANGED <<envVars, bufVars, surfVars>>

Next == New \/ MakeCurrentOsmesaBuffer \/ MakeNotCurrent \/ IsCurrent \/ Drop

Spec == Init /\ [][Next]_vars

\* ------------------------------------------------- specification of new()
\* new() and drop() read neither the driver's clear support nor the build's
\* integer widths; they are fixed here.
InitNew ==
    /\ Init
    /\ driverClears
    /\ usizeBits = 2 * WordBits
    /\ ~overflowChecks

NewAny == NewWith(AllRequests)

NextNew == NewAny \/ Drop

SpecNew == InitNew /\ [][NextNew]_vars

\* ------------------------------------------------- specification of OsMesaBuffer::new
\* OsMesaBuffer::new(ctx, size) does not read ctx and makes no native call.
InitBuffer ==
    /\ Init
    /\ libAvailable
    /\ driverClears

BufferNew ==
    \E w \in U32, h \in U32 :
        /\ buffer' = OsMesaBufferNew(w, h, usizeBits, overflowChecks)
        /\ UNCHANGED <<ctxVars, envVars, surfVars>>

NextBuffer == BufferNew

SpecBuffer == InitBuffer /\ [][NextBuffer]_vars

\* ------------------------------------------------- specification of WindowSurface
InitSurface ==
    /\ Init
    /\ libAvailable
    /\ driverClears
    /\ usizeBits = 2 * WordBits
    /\ ~overflowChecks

\* the handles egl::WindowSurface::new_window_surface can return
EglSurfaces == 1 .. MaxHandles

\* WindowSurface::new(disp, conf, wb) for a window of physical size (w, h):
\* the window has no Wayland surface, or EGL refuses the surface, or the pair
\* (wsurface, surface) is built.
WindowSurfaceNew ==
    \E w \in EdgeSizes, h \in EdgeSizes :
        \/ /\ lastSurfaceOp' = [op |-> "new", w |-> w, h |-> h,
                                result |-> "Err(NotSupported(Wayland not found))"]
           /\ UNCHANGED <<wsurface, surface, ctxVars, envVars, bufVars>>
        \/ /\ lastSurfaceOp' = [op |-> "new", w |-> w, h |-> h,
                                result |-> "Err(new_window_surface)"]
           /\ UNCHANGED <<wsurface, surface, ctxVars, envVars, bufVars>>
        \/ \E e \in EglSurfaces :
             /\ wsurface' = WindowSurfaceNewWl(w, h)
             /\ surface' = e
             /\ lastSurfaceOp' = [op |-> "new", w |-> w, h |-> h, result |-> "Ok"]
             /\ UNCHANGED <<ctxVars, envVars, bufVars>>

UpdateAfterResize ==
    \E w \in U32, h \in U32 :
        /\ surface # NULL
        /\ wsurface' = UpdateAfterResizeWl(w, h)
        /\ lastSurfaceOp' = [op |-> "update_after_resize", w |-> w, h |-> h,
                             result |-> "Ok"]
        /\ UNCHANGED <<surface, ctxVars, envVars, bufVars>>

NextSurface == WindowSurfaceNew \/ UpdateAfterResize

SpecSurface == InitSurface /\ [][NextSurface]_vars

\* ------------------------------------------------- properties
HasCall(calls, fn) == \E i \in 1 .. Len(calls) : calls[i].fn = fn

CallsOf(calls, fn) == {i \in 1 .. Len(calls) : calls[i].fn = fn}

\* C1: a context created by a successful new() is not current (is_current()
\* is false) in every state until make_current_osmesa_buffer is first called
\* on it, whatever was created, bound, unbound or dropped before, and it is
\* current in the state right after a make_current_osmesa_buffer on it that
\* returned Ok.
C1_NotCurrentUntilBound ==
    /\ \A c \in contexts \ everBound : ~IsCurrentOf(c, OSMesaGetCurrentContext)
    /\ (last.op = "make_current_osmesa_buffer" /\ last.result = "Ok")
         => IsCurrentOf(last.self, OSMesaGetCurrentContext)

\* a bind has just returned Ok while another, never bound, context exists
C1_Witness ==
    /\ last.op = "make_current_osmesa_buffer"
    /\ last.result = "Ok"
    /\ last.self \in everBound
    /\ \E d \in contexts \ everBound : d # last.self

\* C2: in the state after a make_not_current that returned Ok, the context
\* it was called on is not current.
C2_NotCurrentAfterUnbind ==
    (last.op = "make_not_current" /\ last.result = "Ok")
        => ~IsCurrentOf(last.self, OSMesaGetCurrentContext)

\* make_not_current returned Ok on a context that was current: it issued the
\* native clear call
C2_Witness ==
    /\ last.op = "make_not_current"
    /\ last.result = "Ok"
    /\ HasCall(last.calls, "OSMesaMakeCurrent")

\* C3: make_not_current on a context that is not the current one (another
\* context, or none, is current) makes no OSMesaMakeCurrent call, returns Ok
\* and leaves the native current-context pointer as it was, so a context that
\* was current stays current.
C3_UnbindOnlyIfCurrent ==
    [][ (last'.op = "make_not_current"
           /\ ~IsCurrentOf(last'.self, OSMesaGetCurrentContext))
        => /\ ~HasCall(last'.calls, "OSMesaMakeCurrent")
           /\ last'.result = "Ok"
           /\ nativeCurrent' = nativeCurrent
           /\ \A d \in contexts :
                IsCurrentOf(d, nativeCurrent) => (d \in contexts' /\ IsCurrentOf(d, nativeCurrent')) ]_vars

\* make_not_current was called on one context while another one is current
C3_Witness ==
    /\ last.op = "make_not_current"
    /\ last.result = "Ok"
    /\ last.self \in contexts
    /\ \E d \in contexts : d # last.self /\ IsCurrentOf(d, nativeCurrent)

\* C6: each handle a successful create returned is destroyed exactly once, by
\* the drop of the OsMesaContext that owns it: the handles allocated in the
\* library are exactly the handles of the values the program holds, a drop
\* makes exactly one OSMesaDestroyContext call, for its own still-allocated
\* handle, and no other operation (a failed create included) destroys
\* anything.
C6_HandleReleasedOnce ==
    /\ [](nativeLive = contexts)
    /\ [][ /\ (last'.op = "drop" /\ contexts' # contexts)
              => /\ Len(last'.calls) = 1
                 /\ last'.calls[1].fn = "OSMesaDestroyContext"
                 /\ last'.calls[1].ctx = last'.self
                 /\ last'.self \in nativeLive
                 /\ nativeLive' = nativeLive \ {last'.self}
                 /\ contexts' = contexts \ {last'.self}
           /\ (last'.op # "drop")
              => /\ ~HasCall(last'.calls, "OSMesaDestroyContext")
                 /\ nativeLive \subseteq nativeLive' ]_vars

\* a context has just been dropped while another one, never bound, is still
\* held
C6_Witness ==
    /\ last.op = "drop"
    /\ last.self \notin contexts
    /\ contexts # {}
    /\ everBound = {}

\* C9: when make_not_current is called on the current context and the native
\* clear call returns 0, the operation ends in the "not implemented" panic:
\* it returns neither Ok nor an Err, and the outcome differs from the one of a
\* failed bind.
C9_UnsupportedClearIsDistinct ==
    [][ (/\ last'.op = "make_not_current"
         /\ IsCurrentOf(last'.self, OSMesaGetCurrentContext)
         /\ OSMesaMakeCurrent(NULL, 0, 0, 0, nativeCurrent, nativeLive, driverClears).ret = 0)
        => /\ last'.result = "panic(not implemented)"
           /\ last'.result # "panic(OSMesaMakeCurrent failed)"
           /\ nativeCurrent' = nativeCurrent ]_vars

\* the clear was attempted on a driver that does not implement it
C9_Witness ==
    /\ last.op = "make_not_current"
    /\ last.result = "panic(not implemented)"
    /\ HasCall(last.calls, "OSMesaMakeCurrent")
    /\ IsCurrentOf(last.self, nativeCurrent)

EsOrWebGl(version) ==
    version.kind = "Specific" /\ version.api \in {"OpenGlEs", "WebGl"}

NoBackendAvailable == {"Err(NoBackendAvailable(LoadingError))",
                       "Err(NoBackendAvailable(NoEsOrWebGlSupported))"}

\* C4 as stated: a new() whose version is Specific(OpenGlEs | WebGl, _) ends
\* in Err(NoBackendAvailable) for every value of the other builder fields, and
\* never calls OSMesaCreateContextAttribs.
C4_Original ==
    (last.op = "new" /\ EsOrWebGl(last.req.version))
        => /\ last.result \in NoBackendAvailable
           /\ ~HasCall(last.calls, "OSMesaCreateContextAttribs")

\* C4 amended: a new() whose version is Specific(OpenGlEs | WebGl, _) never
\* calls OSMesaCreateContextAttribs and never ends in Ok or Err(OsError), for
\* every value of the other builder fields; it ends in Err(NoBackendAvailable)
\* for every profile when no sharing context is given and the robustness is
\* not one of the two rejected modes.
C4_EsOrWebGlRejected ==
    (last.op = "new" /\ EsOrWebGl(last.req.version))
        => /\ ~HasCall(last.calls, "OSMesaCreateContextAttribs")
           /\ last.result \notin {"Ok", "Err(OsError)"}
           /\ (last.req.sharing = NULL /\ last.req.robustness \notin RejectedRobustness)
                => last.result \in NoBackendAvailable

\* an ES request with a profile, on a machine where the library loads
C4_Witness ==
    /\ last.op = "new"
    /\ EsOrWebGl(last.req.version)
    /\ last.req.profile = "Core"
    /\ last.req.sharing = NULL
    /\ last.req.robustness \notin RejectedRobustness
    /\ last.result = "Err(NoBackendAvailable(NoEsOrWebGlSupported))"

\* C5 as stated: a new() with robustness RobustNoResetNotification or
\* RobustLoseContextOnReset ends in Err(RobustnessNotSupported) with no native
\* call before it (neither the library load nor OSMesaCreateContextAttribs)
\* and with the allocated handles unchanged.
C5_Original ==
    [][ (last'.op = "new" /\ last'.req.robustness \in RejectedRobustness)
        => /\ last'.result = "Err(RobustnessNotSupported)"
           /\ last'.calls = <<>>
           /\ nativeLive' = nativeLive ]_vars

\* C5 amended: a new() with robustness RobustNoResetNotification or
\* RobustLoseContextOnReset fails after the library load and before any other
\* native call: OsMesa::try_loading is the only call it makes, the allocated
\* handles and the current context are unchanged, and the result is
\* Err(RobustnessNotSupported) when the library loads and no sharing context
\* is given.
C5_RobustnessRejected ==
    [][ (last'.op = "new" /\ last'.req.robustness \in RejectedRobustness)
        => /\ last'.calls = <<Call("OsMesa::try_loading", NULL, 0, 0)>>
           /\ last'.result # "Ok"
           /\ nativeLive' = nativeLive
           /\ nativeCurrent' = nativeCurrent
           /\ contexts' = contexts
           /\ (libAvailable /\ last'.req.sharing = NULL)
                => last'.result = "Err(RobustnessNotSupported)" ]_vars

\* a rejected robustness mode was asked for while a context is allocated
C5_Witness ==
    /\ last.op = "new"
    /\ last.req.robustness \in RejectedRobustness
    /\ last.result = "Err(RobustnessNotSupported)"
    /\ nativeLive # {}

\* the key positions of an attribute list: every second element, the
\* terminator excluded
KeyIndices(attribs) == {i \in 1 .. (Len(attribs) - 1) : i % 2 = 1}

\* the values an attribute list gives to a key
ValuesOf(attribs, key) == {attribs[i + 1] : i \in {j \in KeyIndices(attribs) : attribs[j] = key}}

\* C10: whenever new() reaches OSMesaCreateContextAttribs, the list it passes
\* is a sequence of (key, value) pairs and one trailing 0: odd length, last
\* element 0, no key 0; it has exactly one profile pair, with the flag of the
\* requested profile, iff a profile was requested, and exactly one major and
\* one minor pair, with the requested numbers, iff a version was given; and
\* the call ends in Err(OsError) iff the native call returned NULL, in Ok
\* otherwise.
C10_AttribList ==
    (last.op = "new" /\ HasCall(last.calls, "OSMesaCreateContextAttribs"))
        => LET a == last.attribs
               req == last.req
               keys == KeyIndices(a)
               pairsOf(k) == {i \in keys : a[i] = k}
           IN  /\ Len(a) % 2 = 1
               /\ a[Len(a)] = 0
               /\ \A i \in keys : a[i] # 0
               /\ \A i \in keys : a[i] \in {OSMESA_PROFILE, OSMESA_CONTEXT_MAJOR_VERSION,
                                            OSMESA_CONTEXT_MINOR_VERSION}
               /\ IF req.profile = "None"
                  THEN pairsOf(OSMESA_PROFILE) = {}
                  ELSE /\ Cardinality(pairsOf(OSMESA_PROFILE)) = 1
                       /\ ValuesOf(a, OSMESA_PROFILE) =
                            {IF req.profile = "Core" THEN OSMESA_CORE_PROFILE
                                                     ELSE OSMESA_COMPAT_PROFILE}
               /\ IF req.version.kind = "Latest"
                  THEN /\ pairsOf(OSMESA_CONTEXT_MAJOR_VERSION) = {}
                       /\ pairsOf(OSMESA_CONTEXT_MINOR_VERSION) = {}
                  ELSE /\ Cardinality(pairsOf(OSMESA_CONTEXT_MAJOR_VERSION)) = 1
                       /\ Cardinality(pairsOf(OSMESA_CONTEXT_MINOR_VERSION)) = 1
                       /\ ValuesOf(a, OSMESA_CONTEXT_MAJOR_VERSION) = {req.version.major}
                       /\ ValuesOf(a, OSMESA_CONTEXT_MINOR_VERSION) = {req.version.minor}
               /\ \A c \in CallsOf(last.calls, "OSMesaCreateContextAttribs") :
                    /\ (last.calls[c].ctx = NULL) <=> (last.result = "Err(OsError)")
                    /\ (last.calls[c].ctx # NULL) <=> (last.result = "Ok")

\* a context was created with a profile and a version whose numbers differ
C10_Witness ==
    /\ last.op = "new"
    /\ last.result = "Ok"
    /\ last.req.profile = "Compatibility"
    /\ last.req.version.kind = "GlThenGles"
    /\ last.req.version.major # last.req.version.minor
    /\ Len(last.attribs) = 7

\* C7 as stated: for every (w, h) with w > 0 and h > 0, OsMesaBuffer::new
\* returns a buffer of length exactly w * h * 4, with width w and height h.
C7_BufferLength ==
    (buffer.op = "new" /\ buffer.w > 0 /\ buffer.h > 0)
        => /\ buffer.result = "Ok"
           /\ buffer.len = buffer.w * buffer.h * 4
           /\ buffer.width = buffer.w
           /\ buffer.height = buffer.h

\* C8 as stated: after update_after_resize with the size (w, h), the
\* wl_egl_window tracks exactly the width w and the height h, at offset (0, 0).
C8_ResizeExact ==
    (lastSurfaceOp.op = "update_after_resize")
        => wsurface = WlEglSurface(lastSurfaceOp.w, lastSurfaceOp.h, 0, 0)

====
